---- MODULE Spec2Model ----
(***************************************************************************)
(* Model of src/model.py: the dropout-prevention Streamlit script.         *)
(*                                                                         *)
(* One action is one run of the script (Streamlit reruns the whole script  *)
(* on every widget interaction); the session state and the widget values   *)
(* are the variables.                                                      *)
(*                                                                         *)
(* Text is a sequence of one-character strings, so that lower(), the "in"  *)
(* substring test, split('\n') and strip() are computed character by       *)
(* character.                                                              *)
(*                                                                         *)
(* The "date" fields (datetime.now()) of the two kinds of record are left   *)
(* out: nothing in the script reads them but the side panel's date line.   *)
(*                                                                         *)
(* Numbers are exact fixed point, so that no step rounds:                  *)
(*   - dropout rates entered by the user are whole percents;               *)
(*   - weights and total_feedback_score are in hundredths (WeightUnit);    *)
(*   - improvement and adjusted_improvement are in 1/150 % (AdjUnit),      *)
(*     which makes total_feedback_score / 1.5 exact;                       *)
(*   - new_rate and rate_change are in 1/15000 % (RateUnit), which makes   *)
(*     (adjusted_improvement / 100) * initial_rate exact.                  *)
(***************************************************************************)
EXTENDS Integers, Sequences, FiniteSets, TLC

VARIABLES
    implemented_measures,   \* st.session_state.implemented_measures
    improvement_history,    \* st.session_state.improvement_history
    initial_rate_input,     \* number_input "initial_rate_input"
    measure_radio,          \* radio "measure_radio": the selected line, or None
    survey,                 \* the 23 survey widgets of tab 2
    posts,                  \* outcomes of the POSTs issued by the last run
    shown,                  \* what the last run wrote into its tab
    sidebar,                \* the side panel as the last run rendered it
    csv,                    \* data of the download button, or None
    fn_call,                \* function harness: the call
    fn_ret                  \* function harness: what it returned

vars == <<implemented_measures, improvement_history, initial_rate_input,
          measure_radio, survey, posts, shown, sidebar, csv, fn_call, fn_ret>>

app_vars == <<implemented_measures, improvement_history, initial_rate_input,
              measure_radio, survey, posts, shown, sidebar, csv>>

-----------------------------------------------------------------------------
(* Bounds of the model *)

MaxPresses == 3     \* presses of the two buttons that write the session state
DrawSteps == 5      \* random.uniform / random.random take DrawSteps + 1 grid values
MaxAdjusted == 150  \* |adjusted_improvement| (whole percents) given to calculate_rate_change
MaxPieces == 2      \* pieces concatenated into a measure text for calculate_improvement

(* Units of the fixed-point numbers *)

WeightUnit == 100
AdjUnit == 150
RateUnit == 15000

MinRate == 0
MaxRate == 100

None == [kind |-> "None"]

-----------------------------------------------------------------------------
(* Text *)

UPPER == <<"A","B","C","D","E","F","G","H","I","J","K","L","M","N","O","P","Q","R","S","T","U","V","W","X","Y","Z">>
LOWER == <<"a","b","c","d","e","f","g","h","i","j","k","l","m","n","o","p","q","r","s","t","u","v","w","x","y","z">>

\* str.lower()
lower(s) ==
    [i \in 1..Len(s) |->
        IF \E k \in 1..Len(UPPER) : UPPER[k] = s[i]
        THEN LOWER[CHOOSE k \in 1..Len(UPPER) : UPPER[k] = s[i]]
        ELSE s[i]]

\* key in s
contains(key, s) ==
    \E i \in 1..(Len(s) - Len(key) + 1) : SubSeq(s, i, i + Len(key) - 1) = key

\* s.split('\n'): the pieces between newlines, empty pieces kept
RECURSIVE split(_)
split(s) ==
    IF \E i \in 1..Len(s) : s[i] = "\n"
    THEN LET i == CHOOSE j \in 1..Len(s) :
                      s[j] = "\n" /\ \A k \in 1..(j - 1) : s[k] # "\n"
         IN  <<SubSeq(s, 1, i - 1)>> \o split(SubSeq(s, i + 1, Len(s)))
    ELSE <<s>>

Whitespace == {" ", "\n", "\t", "\r"}

\* truth of s.strip()
strip_nonempty(s) == \E i \in 1..Len(s) : s[i] \notin Whitespace

\* whether text s begins with p
startswith(s, p) == Len(s) >= Len(p) /\ SubSeq(s, 1, Len(p)) = p

-----------------------------------------------------------------------------
(* get_groq_response *)

ErrorPrefix == <<"E","r","r","o","r",":"," ">>

\* What the POST of line 52 and the parsing of lines 53-54 can do: deliver a
\* body whose choices[0].message.content is the text, or raise
\*   "transport": requests.post raises (connection error, timeout),
\*   "status":    raise_for_status() raises on a non-2xx status,
\*   "malformed": response.json() or the indexing raises on the body.
FailureKinds == {"transport", "status", "malformed"}

\* str(e) of the exception raised
str_e(outcome) ==
    CASE outcome.kind = "transport" -> <<"t","i","m","e","d"," ","o","u","t">>
      [] outcome.kind = "status"    -> <<"4","0","1"," ","C","l","i","e","n","t"," ","E","r","r","o","r">>
      [] outcome.kind = "malformed" -> <<"'","c","h","o","i","c","e","s","'">>

\* A Python call either returns a value or raises
Return(v) == [raised |-> FALSE, value |-> v]
Raise(e) == [raised |-> TRUE, value |-> e]

\* get_groq_response without its try/except: the exception leaves the call
get_groq_response_unguarded(outcome) ==
    IF outcome.kind = "ok" THEN Return(outcome.content) ELSE Raise(str_e(outcome))

get_groq_response(outcome) ==
    IF outcome.kind = "ok"
    THEN Return(outcome.content)
    ELSE Return(ErrorPrefix \o str_e(outcome))

-----------------------------------------------------------------------------
(* calculate_improvement *)

improvements == <<
    [key |-> <<"c","o","u","n","s","e","l","i","n","g">>,
     min_imp |-> 5, max_imp |-> 30, feedback |-> "Individual counseling sessions impact varied"],
    [key |-> <<"m","e","n","t","o","r","i","n","g">>,
     min_imp |-> 10, max_imp |-> 35, feedback |-> "Mentoring program showed varying results"],
    [key |-> <<"a","c","a","d","e","m","i","c"," ","s","u","p","p","o","r","t">>,
     min_imp |-> 15, max_imp |-> 40, feedback |-> "Academic support services impact observed"],
    [key |-> <<"f","i","n","a","n","c","i","a","l"," ","a","i","d">>,
     min_imp |-> 20, max_imp |-> 45, feedback |-> "Financial assistance impact noted"],
    [key |-> <<"e","n","g","a","g","e","m","e","n","t">>,
     min_imp |-> 10, max_imp |-> 35, feedback |-> "Engagement changes affected attendance"],
    [key |-> <<"m","o","n","i","t","o","r","i","n","g">>,
     min_imp |-> 5, max_imp |-> 30, feedback |-> "Monitoring showed mixed results"] >>

GeneralMin == -25
GeneralMax == 25
GeneralFeedback == "General impact observed"

\* random.uniform with the step taken whole, not as a fraction of the range
uniform_unscaled(a, b, u) == a * AdjUnit + (b - a) * AdjUnit * u

\* random.uniform(a, b) at grid point u of 0..DrawSteps, in AdjUnit
uniform(a, b, u) == a * AdjUnit + ((b - a) * AdjUnit * u) \div DrawSteps

\* random.random() < 0.4 at grid point v of 0..DrawSteps-1, random() = v / DrawSteps
negated(v) == v * 10 < 4 * DrawSteps

UniformDraws == 0..DrawSteps
RandomDraws == 0..(DrawSteps - 1)

\* the last entry of the table that matches, 0 when none does
RECURSIVE last_match(_, _)
last_match(measure_lower, i) ==
    IF i < 1 THEN 0
    ELSE IF contains(improvements[i].key, measure_lower) THEN i
         ELSE last_match(measure_lower, i - 1)

first_match_reversed(measure_lower, i) == last_match(measure_lower, Len(improvements))

\* the for loop of line 70 from entry i on: the first entry whose key is in
\* measure_lower, 0 when the loop falls through
RECURSIVE first_match(_, _)
first_match(measure_lower, i) ==
    IF i > Len(improvements) THEN 0
    ELSE IF contains(improvements[i].key, measure_lower) THEN i
         ELSE first_match(measure_lower, i + 1)

calculate_improvement(measure_type, initial_rate, u, v) ==
    LET measure_lower == lower(measure_type)
        i == first_match(measure_lower, 1)
    IN  IF i # 0
        THEN LET improvement == uniform(improvements[i].min_imp, improvements[i].max_imp, u)
             IN  [improvement |-> IF negated(v) THEN -improvement ELSE improvement,
                  feedback |-> improvements[i].feedback]
        ELSE [improvement |-> uniform(GeneralMin, GeneralMax, u),
              feedback |-> GeneralFeedback]

-----------------------------------------------------------------------------
(* calculate_rate_change *)

identity(x) == x

abs(x) == IF x < 0 THEN -x ELSE x

max(a, b) == IF a >= b THEN a ELSE b
min(a, b) == IF a <= b THEN a ELSE b

clamp_low_only(x) == max(MinRate * RateUnit, x)

\* max(0, min(100, new_rate)), in RateUnit
clamp(x) == max(MinRate * RateUnit, min(MaxRate * RateUnit, x))

direction_by_sign(new_rate, initial_rate, adjusted_improvement) ==
    IF adjusted_improvement > 0 THEN "-" ELSE "+"

\* "-" if new_rate < initial_rate else "+"
direction(new_rate, initial_rate, adjusted_improvement) ==
    IF new_rate < initial_rate * RateUnit THEN "-" ELSE "+"

\* calculate_rate_change with the change added to the rate, not subtracted
calculate_rate_change_added(initial_rate, adjusted_improvement) ==
    LET rate_change == adjusted_improvement * initial_rate
        new_rate == clamp(initial_rate * RateUnit + rate_change)
    IN  [new_rate |-> new_rate,
         rate_change |-> abs(rate_change),
         change_direction |-> direction(new_rate, initial_rate, adjusted_improvement)]

\* initial_rate in whole percents, adjusted_improvement in AdjUnit;
\* (adjusted_improvement / 100) * initial_rate in RateUnit is their product
calculate_rate_change(initial_rate, adjusted_improvement) ==
    LET rate_change == adjusted_improvement * initial_rate
        new_rate == clamp(initial_rate * RateUnit - rate_change)
    IN  [new_rate |-> new_rate,
         rate_change |-> abs(rate_change),
         change_direction |-> direction(new_rate, initial_rate, adjusted_improvement)]

-----------------------------------------------------------------------------
(* The survey and its score: the "Analyze Improvement" handler, lines 281-355 *)

\* widget keys of the radios, each "True" / "False"
BooleanWidgets == {
    "attendance_improved", "academic_performance_improved", "completing_assignments",
    "classroom_engagement", "asking_questions", "behavior_improved",
    "emotional_stability", "parental_support", "active_participation",
    "extracurricular_participation", "effective_time_management",
    "cultural_barriers", "dropout_risk_reduction" }

\* widget keys of the sliders, each 1..10
ScaleWidgets == {
    "attendance_consistency", "grasp_academic_concepts", "attentiveness_in_class",
    "interaction_with_peers", "parental_involvement", "enthusiasm_in_activities",
    "extracurricular_performance", "overall_effort",
    "family_support_cultural_barriers", "overall_progress" }

Widgets == BooleanWidgets \cup ScaleWidgets

SliderMin == 1
SliderMax == 10

\* keys of feedback_scores, in the order the dict is built (and summed)
ScoreKeys == <<
    "attendance_consistency", "attendance", "academic_performance",
    "grasp_academic_concepts", "completing_assignments", "classroom_engagement",
    "attentiveness_in_class", "asking_questions", "behavior_improved",
    "interaction_with_peers", "emotional_stability", "parental_support",
    "parental_involvement", "active_participation", "enthusiasm_in_activities",
    "extracurricular_participation", "extracurricular_performance",
    "effective_time_management", "overall_effort", "cultural_barriers",
    "family_support_cultural_barriers", "dropout_risk_reduction", "overall_progress" >>

\* the widget a score is computed from
widget_of(key) ==
    CASE key = "attendance" -> "attendance_improved"
      [] key = "academic_performance" -> "academic_performance_improved"
      [] OTHER -> key

\* one entry of feedback_scores
score(answers, key) ==
    LET w == widget_of(key)
    IN  IF w \in ScaleWidgets THEN (answers[w] - 5) * 4
        ELSE IF w = "cultural_barriers"
             THEN (IF answers[w] = "True" THEN -40 ELSE 20)
             ELSE (IF answers[w] = "True" THEN 20 ELSE -40)

feedback_scores(answers) ==
    [key \in {ScoreKeys[i] : i \in 1..Len(ScoreKeys)} |-> score(answers, key)]

\* the weights dict, in WeightUnit
weights == [
    attendance |-> 15, attendance_consistency |-> 15, academic_performance |-> 20,
    grasp_academic_concepts |-> 15, completing_assignments |-> 15,
    classroom_engagement |-> 15, attentiveness_in_class |-> 15,
    asking_questions |-> 15, behavior_improved |-> 10, interaction_with_peers |-> 10,
    emotional_stability |-> 10, parental_support |-> 15, parental_involvement |-> 15 ]

DefaultWeight == 10

weights_get_listed_only(key) == IF key \in DOMAIN weights THEN weights[key] ELSE 0

\* weights.get(key, 0.10)
weights_get(key) == IF key \in DOMAIN weights THEN weights[key] ELSE DefaultWeight

\* sum(weights.get(key, 0.10) * value for key, value in feedback_scores.items()),
\* over the first n keys, in WeightUnit
RECURSIVE weighted_sum(_, _)
weighted_sum(scores, n) ==
    IF n = 0 THEN 0
    ELSE weighted_sum(scores, n - 1) + weights_get(ScoreKeys[n]) * scores[ScoreKeys[n]]

total_feedback_score(scores) == weighted_sum(scores, Len(ScoreKeys))

adjust_div_10(improvement_percentage, total) ==
    improvement_percentage + (total * AdjUnit) \div (10 * WeightUnit)

\* improvement_percentage + (total_feedback_score / 1.5), in AdjUnit:
\* total / WeightUnit / 1.5 percent is total / 150 percent, that is total AdjUnits
adjust(improvement_percentage, total) == improvement_percentage + total

\* lines 281-355: what the handler computes from the selected measure, the rate
\* of last_measures, the survey answers and the two random draws
analysis(selected_measure, rate, answers, u, v) ==
    LET scores == feedback_scores(answers)
        total == total_feedback_score(scores)
        imp == calculate_improvement(selected_measure, rate, u, v)
        adjusted_improvement == adjust(imp.improvement, total)
        rc == calculate_rate_change(rate, adjusted_improvement)
    IN  [feedback_scores |-> scores,
         total_feedback_score |-> total,
         improvement_percentage |-> imp.improvement,
         feedback_summary |-> imp.feedback,
         adjusted_improvement |-> adjusted_improvement,
         new_rate |-> rc.new_rate,
         rate_change |-> rc.rate_change,
         change_direction |-> rc.change_direction]

\* a survey with every radio at b, except cultural_barriers at cb, and every slider at s
Answers(b, cb, s) ==
    [w \in Widgets |->
        IF w \in ScaleWidgets THEN s
        ELSE IF w = "cultural_barriers" THEN cb ELSE b]

\* the widgets as first rendered: radios at their first option, sliders at their minimum
DefaultAnswers == Answers("True", "True", SliderMin)

-----------------------------------------------------------------------------
(* The session: one action per run of the script *)

\* inputs of the runs
Rates == {MinRate, MaxRate}

RecommendedText ==
    <<"1","."," ","[","M","e","n","t","o","r","i","n","g","]"," ","P","a","i","r","\n","\n","2","."," ","[","C","o","u","n","s","e","l","i","n","g","]"," ","T","a","l","k">>

Ok(text) == [kind |-> "ok", content |-> text]
Failure(kind) == [kind |-> kind]

Outcomes == {Ok(RecommendedText)} \cup {Failure(k) : k \in FailureKinds}

ReportText == <<"R","e","p","o","r","t">>

ReportOutcomes == {Ok(ReportText), Failure("transport")}

SessionAnswers == {DefaultAnswers, Answers("False", "True", SliderMin)}

\* the session draws at the ends of the grids only
SessionUniformDraws == {DrawSteps}
SessionRandomDraws == {0, DrawSteps - 1}

Some(v) == [kind |-> "Some", value |-> v]

first_measures(measures) == measures[1]

\* st.session_state.implemented_measures[-1]
last_measures(measures) == measures[Len(measures)]

\* [measure for measure in last_measures["measures"] if measure.strip()]
valid_measures(measures) ==
    IF measures = <<>> THEN <<>>
    ELSE SelectSeq(last_measures(measures).measures, strip_nonempty)

Elements(seq) == {seq[i] : i \in 1..Len(seq)}

\* st.radio(..., valid_measures, key="measure_radio") as a run renders it: nothing
\* is selected without options, the selection is kept while the options are the
\* same, and it is the first option when they are new
radio(old_options, options, current) ==
    IF options = <<>> THEN None
    ELSE IF options = old_options /\ current # None THEN current
         ELSE Some(options[1])

\* f"{x:.1f}" of a number in RateUnit: tenths of a percent, half to even
format_1f(x) ==
    LET tenth == RateUnit \div 10
        q == x \div tenth
        r == x % tenth
    IN  IF 2 * r > tenth \/ (2 * r = tenth /\ q % 2 = 1) THEN q + 1 ELSE q

\* entry['measure'][:50]
first_50(s) == SubSeq(s, 1, min(50, Len(s)))

\* one expander of the side panel
expander(entry) ==
    [title |-> first_50(entry.measure),
     initial_rate |-> format_1f(entry.initial_rate * RateUnit),
     final_rate |-> format_1f(entry.final_rate),
     rate_change |-> format_1f(entry.rate_change),
     feedback |-> entry.feedback]

\* for entry in reversed(st.session_state.improvement_history)
render_sidebar(history) ==
    [i \in 1..Len(history) |-> expander(history[Len(history) + 1 - i])]

Columns == <<"measure", "initial_rate", "final_rate", "rate_change", "feedback", "feedback_scores">>

\* pd.DataFrame(history).to_csv(index=False): a header and one row per record
render_csv(history) ==
    IF history = <<>> THEN None
    ELSE Some([header |-> Columns,
               rows |-> [i \in 1..Len(history) |->
                            <<history[i].measure, history[i].initial_rate,
                              history[i].final_rate, history[i].rate_change,
                              history[i].feedback, history[i].feedback_scores>>]])

prepend_record(history, record) == <<record>> \o history

\* st.session_state.improvement_history.append(record)
append_record(history, record) == Append(history, record)

Init ==
    /\ implemented_measures = <<>>
    /\ improvement_history = <<>>
    /\ initial_rate_input = MinRate
    /\ measure_radio = None
    /\ survey = DefaultAnswers
    /\ posts = <<>>
    /\ shown = None
    /\ sidebar = <<>>
    /\ csv = None
    /\ fn_call = None
    /\ fn_ret = None

\* lines 402-423, which every run reaches unless an exception ended it
Rerender ==
    /\ sidebar' = render_sidebar(improvement_history')
    /\ csv' = render_csv(improvement_history')

\* a run in which no button is pressed writes nothing into the tabs
NoButton ==
    /\ posts' = <<>>
    /\ shown' = None
    /\ UNCHANGED <<implemented_measures, improvement_history, fn_call, fn_ret>>

\* the user edits the dropout rate
SetInitialRate(rate) ==
    /\ rate # initial_rate_input
    /\ initial_rate_input' = rate
    /\ UNCHANGED <<measure_radio, survey>>
    /\ NoButton
    /\ Rerender

\* the user picks another measure of the radio
SelectMeasure(line) ==
    /\ line \in Elements(valid_measures(implemented_measures))
    /\ measure_radio # Some(line)
    /\ measure_radio' = Some(line)
    /\ UNCHANGED <<initial_rate_input, survey>>
    /\ NoButton
    /\ Rerender

\* the user edits the survey, which is rendered once a measure is selected
SetSurvey(answers) ==
    /\ measure_radio # None
    /\ answers # survey
    /\ survey' = answers
    /\ UNCHANGED <<initial_rate_input, measure_radio>>
    /\ NoButton
    /\ Rerender

\* the user presses "Download Improvement History"
Download ==
    /\ csv # None
    /\ UNCHANGED <<initial_rate_input, measure_radio, survey>>
    /\ NoButton
    /\ Rerender

\* the user presses "Get Preventive Measures"; outcome is what the POST does
GetPreventiveMeasures(outcome) ==
    /\ Len(implemented_measures) + Len(improvement_history) < MaxPresses
    /\ posts' = <<outcome>>
    /\ UNCHANGED <<improvement_history, initial_rate_input, survey, fn_call, fn_ret>>
    /\ LET measures == get_groq_response(outcome)
       IN  IF measures.raised
           THEN \* the exception ends the run at line 193
                /\ shown' = [kind |-> "exception", text |-> measures.value]
                /\ UNCHANGED <<implemented_measures, measure_radio, sidebar, csv>>
           ELSE /\ shown' = [kind |-> "measures", text |-> measures.value]
                /\ implemented_measures' =
                       Append(implemented_measures,
                              [rate |-> initial_rate_input,
                               measures |-> split(measures.value)])
                /\ measure_radio' = radio(valid_measures(implemented_measures),
                                          valid_measures(implemented_measures'),
                                          measure_radio)
                /\ Rerender

\* the user presses "Analyze Improvement"; u and v are the random draws,
\* outcome is what the POST of the report does
AnalyzeImprovement(u, v, outcome) ==
    /\ Len(implemented_measures) + Len(improvement_history) < MaxPresses
    /\ implemented_measures # <<>>
    /\ measure_radio # None
    /\ posts' = <<outcome>>
    /\ UNCHANGED <<implemented_measures, initial_rate_input, measure_radio, survey,
                   fn_call, fn_ret>>
    /\ LET last == last_measures(implemented_measures)
           selected_measure == measure_radio.value
           a == analysis(selected_measure, last.rate, survey, u, v)
           report == get_groq_response(outcome)
       IN  IF report.raised
           THEN \* the exception ends the run at line 357
                /\ shown' = [kind |-> "exception", text |-> report.value]
                /\ UNCHANGED <<improvement_history, sidebar, csv>>
           ELSE /\ shown' = [kind |-> "analysis",
                             initial_rate |-> format_1f(last.rate * RateUnit),
                             current_rate |-> format_1f(a.new_rate),
                             delta |-> <<a.change_direction, format_1f(a.rate_change)>>,
                             status |-> IF a.new_rate > last.rate * RateUnit
                                        THEN "Decline" ELSE "Improvement",
                             report |-> report.value]
                /\ improvement_history' =
                       append_record(improvement_history,
                                     [measure |-> selected_measure,
                                      initial_rate |-> last.rate,
                                      final_rate |-> a.new_rate,
                                      rate_change |-> a.rate_change,
                                      feedback |-> a.feedback_summary,
                                      feedback_scores |-> a.feedback_scores])
                /\ Rerender

Next ==
    \/ \E rate \in Rates : SetInitialRate(rate)
    \/ \E outcome \in Outcomes : GetPreventiveMeasures(outcome)
    \/ \E line \in Elements(valid_measures(implemented_measures)) : SelectMeasure(line)
    \/ \E answers \in SessionAnswers : SetSurvey(answers)
    \/ \E u \in SessionUniformDraws, v \in SessionRandomDraws, outcome \in ReportOutcomes :
           AnalyzeImprovement(u, v, outcome)
    \/ Download

Spec == Init /\ [][Next]_vars

-----------------------------------------------------------------------------
(* The functions on their own: Init draws the arguments, the action applies  *)
(* the function with every outcome of its random draws                       *)

Pieces == {
    <<"[","C","o","u","n","s","e","l","i","n","g","]"," ">>,
    <<"M","E","N","T","O","R","I","N","G"," ">>,
    <<"A","c","a","d","e","m","i","c"," ","S","u","p","p","o","r","t"," ">>,
    <<"f","i","n","a","n","c","i","a","l"," ","a","i","d"," ">>,
    <<"E","n","g","a","g","e","m","e","n","t"," ">>,
    <<"m","o","n","i","t","o","r","i","n","g"," ">>,
    <<"C","o","u","n","s","e","l","l","i","n","g"," ">>,
    <<"t","u","t","o","r","i","n","g">>,
    <<"E","r","r","o","r",":"," ">> }

RECURSIVE concat(_)
concat(pieces) == IF pieces = <<>> THEN <<>> ELSE Head(pieces) \o concat(Tail(pieces))

MeasureTexts == {concat(p) : p \in UNION {[1..k -> Pieces] : k \in 0..MaxPieces}}

ScenarioMeasure == <<"A","c","a","d","e","m","i","c"," ","S","u","p","p","o","r","t"," ","t","u","t","o","r","i","n","g">>

AnalysisMeasures ==
    {ScenarioMeasure, <<"2","."," ","[","C","o","u","n","s","e","l","i","n","g","]"," ","T","a","l","k">>, ErrorPrefix \o str_e(Failure("status"))}

AnalysisAnswers ==
    {Answers(b, cb, s) : b \in {"True", "False"}, cb \in {"True", "False"},
                         s \in SliderMin..SliderMax}

AnalysisRates == {MinRate, 50, MaxRate}

RateChangeCalls ==
    {[fn |-> "calculate_rate_change", initial_rate |-> r, adjusted_improvement |-> a * AdjUnit] :
        r \in MinRate..MaxRate, a \in (-MaxAdjusted)..MaxAdjusted}

ImprovementCalls ==
    {[fn |-> "calculate_improvement", measure_type |-> m, initial_rate |-> r] :
        m \in MeasureTexts, r \in {50}}

AnalysisCalls ==
    {[fn |-> "analysis", selected_measure |-> m, rate |-> r, answers |-> a] :
        m \in AnalysisMeasures, r \in AnalysisRates, a \in AnalysisAnswers}

FnInit ==
    /\ implemented_measures = <<>>
    /\ improvement_history = <<>>
    /\ initial_rate_input = MinRate
    /\ measure_radio = None
    /\ survey = DefaultAnswers
    /\ posts = <<>>
    /\ shown = None
    /\ sidebar = <<>>
    /\ csv = None
    /\ fn_call \in RateChangeCalls \cup ImprovementCalls \cup AnalysisCalls
    /\ fn_ret = None

CallRateChange ==
    /\ fn_call.fn = "calculate_rate_change"
    /\ fn_ret = None
    /\ fn_ret' = Some(calculate_rate_change(fn_call.initial_rate, fn_call.adjusted_improvement))
    /\ UNCHANGED <<app_vars, fn_call>>

CallImprovement(u, v) ==
    /\ fn_call.fn = "calculate_improvement"
    /\ fn_ret = None
    /\ fn_ret' = Some(calculate_improvement(fn_call.measure_type, fn_call.initial_rate, u, v))
    /\ UNCHANGED <<app_vars, fn_call>>

CallAnalysis(u, v) ==
    /\ fn_call.fn = "analysis"
    /\ fn_ret = None
    /\ fn_ret' = Some(analysis(fn_call.selected_measure, fn_call.rate, fn_call.answers, u, v))
    /\ UNCHANGED <<app_vars, fn_call>>

FnNext ==
    \/ CallRateChange
    \/ \E u \in UniformDraws, v \in RandomDraws : CallImprovement(u, v)
    \/ \E u \in UniformDraws, v \in RandomDraws : CallAnalysis(u, v)

SpecFn == FnInit /\ [][FnNext]_vars

-----------------------------------------------------------------------------
(* Claims *)

Returned(fn) == fn_call.fn = fn /\ fn_ret # None

PressedAnalyze ==
    \E u \in SessionUniformDraws, v \in SessionRandomDraws, outcome \in ReportOutcomes :
        AnalyzeImprovement(u, v, outcome)

\* C1: in every record of the history, rate_change is the absolute difference
\* between initial_rate and final_rate of that record (as claimed; the code
\* stores the magnitude computed before new_rate is clamped).
C1_RateChangeIsDifference ==
    \A i \in 1..Len(improvement_history) :
        LET entry == improvement_history[i]
            difference == entry.initial_rate * RateUnit - entry.final_rate
        IN  entry.rate_change = IF difference < 0 THEN -difference ELSE difference

\* C2: for every initial_rate in [0,100] and every adjusted_improvement, the
\* new_rate that calculate_rate_change returns lies in [0,100]; so does the
\* new_rate the handler computes and stores as final_rate.
C2_NewRateInRange ==
    /\ Returned("calculate_rate_change") =>
           /\ fn_ret.value.new_rate >= MinRate * RateUnit
           /\ fn_ret.value.new_rate <= MaxRate * RateUnit
    /\ Returned("analysis") =>
           /\ fn_ret.value.new_rate >= MinRate * RateUnit
           /\ fn_ret.value.new_rate <= MaxRate * RateUnit

\* a call whose unclamped new rate is above 100 has returned 100
C2_Witness ==
    /\ Returned("calculate_rate_change")
    /\ fn_call.initial_rate * RateUnit - fn_call.adjusted_improvement * fn_call.initial_rate
           > MaxRate * RateUnit
    /\ fn_ret.value.new_rate = MaxRate * RateUnit

\* C3: the direction calculate_rate_change returns is "-" if and only if the
\* clamped new_rate is strictly below initial_rate, and "+" in every other
\* case, equality included.
C3_Direction ==
    Returned("calculate_rate_change") =>
        /\ fn_ret.value.change_direction \in {"-", "+"}
        /\ fn_ret.value.change_direction = "-"
               <=> fn_ret.value.new_rate < fn_call.initial_rate * RateUnit

\* a negative improvement at initial_rate = 100 leaves the rate at 100: "+"
C3_Witness ==
    /\ Returned("calculate_rate_change")
    /\ fn_call.initial_rate = MaxRate
    /\ fn_call.adjusted_improvement < 0
    /\ fn_ret.value.new_rate = fn_call.initial_rate * RateUnit
    /\ fn_ret.value.change_direction = "+"

\* C4: the rate_change that calculate_rate_change returns, and that the
\* handler stores, is never negative, whatever the sign of
\* adjusted_improvement and whatever the direction.
C4_MagnitudeNonNegative ==
    /\ Returned("calculate_rate_change") => fn_ret.value.rate_change >= 0
    /\ Returned("analysis") => fn_ret.value.rate_change >= 0

\* a negative improvement has returned a positive magnitude with direction "+"
C4_Witness ==
    /\ Returned("calculate_rate_change")
    /\ fn_call.adjusted_improvement < 0
    /\ fn_ret.value.rate_change > 0
    /\ fn_ret.value.change_direction = "+"

\* C5: the history is append-only and insertion-ordered: only a press of
\* "Analyze Improvement" changes it, each press appends exactly one record at
\* the end and leaves the earlier records as they were, and after every run the
\* side panel lists the records latest first.
C5_AppendOnly ==
    [][ /\ PressedAnalyze => Len(improvement_history') = Len(improvement_history) + 1
        /\ improvement_history' # improvement_history =>
               /\ PressedAnalyze
               /\ Len(improvement_history') = Len(improvement_history) + 1
               /\ \A i \in 1..Len(improvement_history) :
                      improvement_history'[i] = improvement_history[i]
        /\ Len(sidebar') = Len(improvement_history')
        /\ \A i \in 1..Len(improvement_history') :
               sidebar'[i] = expander(improvement_history'[Len(improvement_history') + 1 - i])
      ]_vars

\* two different records are in the history and the side panel shows the later first
C5_Witness ==
    /\ Len(improvement_history) = 2
    /\ improvement_history[1].measure # improvement_history[2].measure
    /\ Len(sidebar) = 2
    /\ sidebar[1].title = improvement_history[2].measure
    /\ sidebar[2].title = improvement_history[1].measure

\* C6: a failure of the POST (transport error, non-2xx status, malformed
\* body) is not raised: the recommendation step shows a text beginning
\* "Error: " as it shows measures, appends a MeasureRecord whose measures are
\* the lines of that text, offers them in the radio, and has sent one POST.
C6_FailureIsContent ==
    [][ \A k \in FailureKinds :
            GetPreventiveMeasures(Failure(k)) =>
                /\ posts' = <<Failure(k)>>
                /\ shown'.kind = "measures"
                /\ startswith(shown'.text, ErrorPrefix)
                /\ Len(implemented_measures') = Len(implemented_measures) + 1
                /\ \A i \in 1..Len(implemented_measures) :
                       implemented_measures'[i] = implemented_measures[i]
                /\ implemented_measures'[Len(implemented_measures')] =
                       [rate |-> initial_rate_input, measures |-> split(shown'.text)]
                /\ measure_radio' \in
                       {Some(line) : line \in
                            Elements(implemented_measures'[Len(implemented_measures')].measures)}
      ]_vars

\* a non-2xx status has become the measure offered in the radio
C6_Witness ==
    /\ posts = <<Failure("status")>>
    /\ shown.kind = "measures"
    /\ implemented_measures # <<>>
    /\ startswith(implemented_measures[Len(implemented_measures)].measures[1], ErrorPrefix)
    /\ measure_radio = Some(implemented_measures[Len(implemented_measures)].measures[1])

\* C7: a record is appended to the history only while implemented_measures
\* is non-empty; its initial_rate is the rate of the MeasureRecord that is last
\* at the press, and its measure is one of that record's non-blank lines.
C7_OnlyLastMeasures ==
    [][ improvement_history' # improvement_history =>
            /\ implemented_measures # <<>>
            /\ LET last == implemented_measures[Len(implemented_measures)]
                   entry == improvement_history'[Len(improvement_history')]
               IN  /\ entry.initial_rate = last.rate
                   /\ \E i \in 1..Len(last.measures) :
                          /\ strip_nonempty(last.measures[i])
                          /\ entry.measure = last.measures[i]
      ]_vars

\* a record was appended from the second of two MeasureRecords of different rates
C7_Witness ==
    /\ Len(implemented_measures) = 2
    /\ implemented_measures[1].rate # implemented_measures[2].rate
    /\ implemented_measures[1].measures # implemented_measures[2].measures
    /\ Len(improvement_history) = 1
    /\ improvement_history[1].initial_rate = implemented_measures[2].rate
    /\ improvement_history[1].measure \in Elements(implemented_measures[2].measures)
    /\ improvement_history[1].measure \notin Elements(implemented_measures[1].measures)

\* the entries of the table whose keyword is in the lower-cased text
Matching(text) ==
    {i \in 1..Len(improvements) : contains(improvements[i].key, lower(text))}

Earliest(S) == CHOOSE i \in S : \A j \in S : i <= j

\* C8: for a measure text that contains one or more keywords, the feedback
\* string and the range used are those of the earliest-listed keyword it
\* contains, wherever the keywords stand in the text.
C8_FirstMatch ==
    (Returned("calculate_improvement") /\ Matching(fn_call.measure_type) # {}) =>
        LET entry == improvements[Earliest(Matching(fn_call.measure_type))]
            magnitude == IF fn_ret.value.improvement < 0
                         THEN -fn_ret.value.improvement ELSE fn_ret.value.improvement
        IN  /\ fn_ret.value.feedback = entry.feedback
            /\ magnitude >= entry.min_imp * AdjUnit
            /\ magnitude <= entry.max_imp * AdjUnit

\* "financial aid MENTORING ": mentoring is listed first and stands second
C8_Witness ==
    /\ Returned("calculate_improvement")
    /\ fn_call.measure_type = <<"f","i","n","a","n","c","i","a","l"," ","a","i","d"," ","M","E","N","T","O","R","I","N","G"," ">>
    /\ Matching(fn_call.measure_type) = {2, 4}
    /\ fn_ret.value.feedback = "Mentoring program showed varying results"
    /\ fn_ret.value.improvement = 35 * AdjUnit

AllPositive == Answers("True", "False", SliderMax)

RECURSIVE SumOver(_, _)
SumOver(f, S) ==
    IF S = {} THEN 0
    ELSE LET x == CHOOSE y \in S : TRUE IN f[x] + SumOver(f, S \ {x})

\* C9: with every radio at its positive choice and every slider at 10, each
\* of the 23 fields contributes +20 and total_feedback_score is 20 x 2.85 = 57
\* (13 listed weights, 0.10 for each other field), not normalized.
C9_MaxScore ==
    (Returned("analysis") /\ fn_call.answers = AllPositive) =>
        /\ Len(ScoreKeys) = 23
        /\ Cardinality(DOMAIN fn_ret.value.feedback_scores) = 23
        /\ Cardinality(DOMAIN weights) = 13
        /\ \A key \in DOMAIN fn_ret.value.feedback_scores :
               fn_ret.value.feedback_scores[key] = 20
        /\ fn_ret.value.total_feedback_score =
               20 * (SumOver(weights, DOMAIN weights) + (23 - 13) * DefaultWeight)
        /\ fn_ret.value.total_feedback_score = 57 * WeightUnit

C9_Witness ==
    /\ Returned("analysis")
    /\ fn_call.answers = AllPositive
    /\ fn_ret.value.total_feedback_score = 57 * WeightUnit

Within(x, lo, hi) == lo <= x /\ x <= hi

AllTrue == Answers("True", "True", SliderMax)

C11_StrictlyMoves ==
    Returned("calculate_rate_change") =>
        /\ fn_call.adjusted_improvement > 0 =>
               fn_ret.value.new_rate < fn_call.initial_rate * RateUnit
        /\ fn_call.adjusted_improvement < 0 =>
               fn_ret.value.new_rate > fn_call.initial_rate * RateUnit

\* C11: calculate_rate_change moves the rate in the direction its docstring
\* states wherever the range [0,100] leaves room: a positive
\* adjusted_improvement yields a new_rate strictly below initial_rate when
\* initial_rate > 0, a negative one a new_rate strictly above it when
\* 0 < initial_rate < 100; at initial_rate = 0 the new_rate is 0, and a
\* negative adjusted_improvement at initial_rate = 100 leaves it at 100.
C11_MovesWithinRange ==
    Returned("calculate_rate_change") =>
        /\ (fn_call.adjusted_improvement > 0 /\ fn_call.initial_rate > MinRate) =>
               fn_ret.value.new_rate < fn_call.initial_rate * RateUnit
        /\ (/\ fn_call.adjusted_improvement < 0
            /\ fn_call.initial_rate > MinRate
            /\ fn_call.initial_rate < MaxRate) =>
               fn_ret.value.new_rate > fn_call.initial_rate * RateUnit
        /\ fn_call.initial_rate = MinRate =>
               fn_ret.value.new_rate = MinRate * RateUnit
        /\ (fn_call.adjusted_improvement < 0 /\ fn_call.initial_rate = MaxRate) =>
               fn_ret.value.new_rate = MaxRate * RateUnit

\* a negative improvement has raised a rate of 50 to 75, below the clamp
C11_Witness ==
    /\ Returned("calculate_rate_change")
    /\ fn_call.initial_rate = 50
    /\ fn_call.adjusted_improvement = -50 * AdjUnit
    /\ fn_ret.value.new_rate = 75 * RateUnit
    /\ fn_ret.value.change_direction = "+"

\* C12: the base improvement calculate_improvement returns is within the
\* bounds of the category selected: when the text matches a keyword, the
\* feedback string is that of a matching keyword with range (min, max) and the
\* value v has min <= |v| <= max, so v is never strictly between -min and min;
\* when no keyword matches (an "Error: ..." text included), v is in [-25,25]
\* and the feedback string is "General impact observed".
C12_WithinCategoryBounds ==
    Returned("calculate_improvement") =>
        LET v == fn_ret.value.improvement
            K == Matching(fn_call.measure_type)
        IN  IF K # {}
            THEN \E i \in K :
                     /\ fn_ret.value.feedback = improvements[i].feedback
                     /\ \/ Within(v, improvements[i].min_imp * AdjUnit,
                                     improvements[i].max_imp * AdjUnit)
                        \/ Within(v, -improvements[i].max_imp * AdjUnit,
                                     -improvements[i].min_imp * AdjUnit)
                     /\ ~(v > -improvements[i].min_imp * AdjUnit
                            /\ v < improvements[i].min_imp * AdjUnit)
            ELSE /\ fn_ret.value.feedback = "General impact observed"
                 /\ Within(v, -25 * AdjUnit, 25 * AdjUnit)

\* an "Error: ..." text matches no keyword and has drawn the lowest value, -25
C12_Witness ==
    /\ Returned("calculate_improvement")
    /\ fn_call.measure_type = <<"E","r","r","o","r",":"," ","t","u","t","o","r","i","n","g">>
    /\ Matching(fn_call.measure_type) = {}
    /\ fn_ret.value.feedback = "General impact observed"
    /\ fn_ret.value.improvement = -25 * AdjUnit

====
